---- MODULE Spec2Model ----
(***************************************************************************)
(* libanac.sintac: the SINTAC session (SINTACSession) with its keep-alive  *)
(* thread, and the log book (LogBook) built on it.  Spec is a session and  *)
(* its caller, LogBookSpec a log book and its caller, SpecTime the time    *)
(* conversion of add_draft alone.                                          *)
(* Thread 0 is the foreground caller, threads 1..MaxThreads are            *)
(* the KeepAliveThread objects login() creates, in creation order.  Every  *)
(* thread runs the same methods on the same session object; a thread's     *)
(* position is its call stack, one label per active method call.           *)
(*                                                                         *)
(* A frame's label says where the method continues:                        *)
(*   init_ret      __init__, login() called inside the try (line 44)       *)
(*   init_except   __init__, in the except SINTACError handler (line 47)   *)
(*   close_check   close(), about to test __expired__ (line 57)            *)
(*   close_super   close(), logout() called (line 58)                      *)
(*   req_check     request(), about to test __expired__ (line 101)         *)
(*   req_send      request(), about to send and scan the reply (111-124)   *)
(*   login_reset   login(), about to clear __expired__ (line 169)          *)
(*   login_wait    login(), in the is_alive/join loop (lines 171-173)      *)
(*   login_posted  login(), post() called (line 175), thread not created   *)
(*   login_start   login(), thread created (181), about to start it (184)  *)
(*   logout_got    logout(), get() called (line 188), flag not yet set     *)
(*   ka_cmp        keep_alive(), get_login() called in the loop (line 155) *)
(*   ka_end        keep_alive(), close() called in the finally (line 162)  *)
(*   pw_posted     change_password(), post() called (line 131)             *)
(*   lb_init       LogBook.__init__, super().__init__ called (line 208)    *)
(*   lb_id         LogBook.__init__ in get_logbook_id, get() called (393)  *)
(*   draft_check   add_draft(), about to check the fields (line 232)       *)
(*   draft_acft    add_draft() in get_acft, get() called (line 381)        *)
(*   draft_posted  add_draft(), post() called inside the try (line 363)    *)
(*   draft_except  add_draft(), in the except handler with a SINTACError   *)
(*                 whose message ends with 'sucesso!' (line 366)           *)
(***************************************************************************)
EXTENDS Integers, Sequences, FiniteSets, TLC

\* Number of KeepAliveThread objects the model lets login() create.
MaxThreads == 3

\* Number of calls the foreground caller makes on the constructed session.
MaxCalls == 2

VARIABLES
    expired,     \* SINTACSession.__expired__
    portal,      \* the portal holds a logged-in session for the cookies
    keep_alive,  \* SINTACSession.__keep_alive__: 0 is None, else a thread
    tstate,      \* each Thread object: "new" (not constructed), "created",
                 \* "alive" (started, is_alive() true), "dead"; the
                 \* foreground thread is alive throughout
    stack,       \* each thread's call stack
    out,         \* how the foreground caller's current call ended ("run"
                 \* while it has not)
    why,         \* why each running monitor left its probe loop
    calls,       \* the calls the foreground caller has made
    op,          \* the foreground caller's current (or latest) call
    sent,        \* the requests the foreground call has sent so far
    fin,         \* __expired__ as the latest foreground call left it
    prev,        \* the foreground call before the current one, if it was
                 \* a logout() or close() that returned and left the
                 \* session expired; "none" otherwise
    stale,       \* a monitor ended on an identity mismatch and no login
                 \* succeeded, nor any foreground call began, since
    begunStale,  \* stale, as the current foreground call found it
    password,    \* SINTACSession.__password__
    txtSenha,    \* the password in the data of the latest login post (0
                 \* before the first)
    arg,         \* the arguments of the foreground caller's current call
    norm,        \* add_draft's locals once the field checks have run
    cat,         \* add_draft's acft['cd_categoria'] ("none" before the
                 \* lookup has returned it)
    reply        \* what came back for the submission request of the
                 \* foreground caller's add_draft ("none" before it)

\* The variables only LogBook's methods and change_password touch.
lbvars == <<password, arg, norm, cat>>

vars == <<expired, portal, keep_alive, tstate, stack, out, why, calls, op, sent, fin,
          prev, stale, begunStale, password, txtSenha, arg, norm, cat, reply>>

Main == 0
Monitors == 1..MaxThreads
Threads == 0..MaxThreads

Top(s) == s[Len(s)]
Pop(s) == SubSeq(s, 1, Len(s) - 1)

\* Which request a request() frame is sending: decided by its caller.
Kind(s) ==
    IF Len(s) < 2 THEN "user"
    ELSE CASE s[Len(s) - 1] = "login_posted" -> "login"
           [] s[Len(s) - 1] = "logout_got"   -> "logout"
           [] s[Len(s) - 1] = "ka_cmp"       -> "probe"
           [] s[Len(s) - 1] = "pw_posted"    -> "passwd"
           [] s[Len(s) - 1] = "lb_id"        -> "logbook_id"
           [] s[Len(s) - 1] = "draft_acft"   -> "acft"
           [] s[Len(s) - 1] = "draft_posted" -> "draft"
           [] OTHER                          -> "user"

\* A SINTACError, and the one whose message ends with 'sucesso!'.
Sucesso == "SINTACError('...sucesso!')"
SINTACErrors == {"SINTACError", Sucesso}

\* Exception e propagating into the frames s: the stack once a handler has
\* it, or <<>> when no frame handles it.  add_draft's handler raises again
\* what is not a success message (line 367).
RECURSIVE Unwind(_, _)
Unwind(s, e) ==
    IF s = <<>> THEN <<>>
    ELSE IF Top(s) = "init_ret" /\ e \in SINTACErrors
         THEN Append(Pop(s), "init_except")
    ELSE IF Top(s) = "draft_posted" /\ e = Sucesso
         THEN Append(Pop(s), "draft_except")
    ELSE IF Top(s) = "ka_cmp"
         THEN Pop(s) \o <<"ka_end", "close_check">>
    ELSE Unwind(Pop(s), e)

\* The top frame of s returns.  A frame left with nothing but local work
\* (close() after logout(): Session.close; __init__ after login();
\* add_draft() after its post()) returns with it.
RECURSIVE Ret(_)
Ret(s) ==
    LET r == Pop(s) IN
    IF r # <<>> /\ Top(r) \in {"close_super", "init_ret", "draft_posted"}
    THEN Ret(r) ELSE r

\* The top frame of s raises e.
Raise(s, e) == Unwind(Pop(s), e)

Alive(t) == tstate[t] = "alive"
AliveMonitors == {t \in Monitors : Alive(t)}
Started == {t \in Monitors : tstate[t] \in {"alive", "dead"}}
Created == {t \in Monitors : tstate[t] # "new"}

\* Thread t continues with stack s; o is how its call ended if s is empty;
\* x is the new value of __expired__; y is why t has left the probe loop,
\* if it has; l says that a login request has just succeeded.
Settle(t, s, o, x, y, l) ==
    /\ expired' = x
    /\ stack' = [stack EXCEPT ![t] = s]
    /\ out' = IF t = Main /\ s = <<>> THEN o ELSE out
    /\ tstate' = IF t # Main /\ s = <<>>
                 THEN [tstate EXCEPT ![t] = "dead"] ELSE tstate
    /\ fin' = IF t = Main /\ s = <<>> THEN x ELSE fin
    /\ stale' = IF l THEN FALSE
                ELSE IF t # Main /\ s = <<>> /\ y = "mismatch" THEN TRUE
                ELSE stale
    /\ why' = IF t = Main THEN why
              ELSE [why EXCEPT ![t] = IF s = <<>> THEN "none" ELSE y]

Running(t) == stack[t] # <<>> /\ Alive(t)

\* A call without arguments; add_draft's locals before the field checks.
NoArg == [call |-> "none"]
NoNorm == [status |-> "none"]
At(t, l) == Running(t) /\ Top(stack[t]) = l

Init ==
    /\ expired = FALSE
    /\ portal = FALSE
    /\ keep_alive = 0
    /\ tstate = [t \in Threads |-> IF t = Main THEN "alive" ELSE "new"]
    /\ stack = [t \in Threads |-> IF t = Main THEN <<"init_ret", "login_reset">>
                                  ELSE <<>>]
    /\ out = "run"
    /\ calls = 0
    /\ why = [t \in Threads |-> "none"]
    /\ op = "init"
    /\ sent = <<>>
    /\ fin = FALSE
    /\ prev = "none"
    /\ stale = FALSE
    /\ begunStale = FALSE
    /\ password = 1
    /\ txtSenha = 0
    /\ arg = NoArg
    /\ norm = NoNorm
    /\ cat = "none"
    /\ reply = "none"

----------------------------------------------------------------------------
\* The foreground caller's calls on a constructed session.

Ops == {"request", "login", "logout", "close"}

Entry(o) ==
    CASE o = "request" -> <<"req_check">>
      [] o = "login"   -> <<"login_reset">>
      [] o = "logout"  -> <<"logout_got", "req_check">>
      [] o = "close"   -> <<"close_check">>

Constructed == ~(op = "init" /\ out # "ok")

\* The foreground caller calls o with the arguments a; e is where o starts.
Enter(o, a, e) ==
    /\ stack[Main] = <<>>
    /\ Constructed
    /\ calls < MaxCalls
    /\ calls' = calls + 1
    /\ stack' = [stack EXCEPT ![Main] = e]
    /\ out' = "run"
    /\ prev' = IF op \in {"logout", "close"} /\ out = "ok" /\ fin THEN op ELSE "none"
    /\ op' = o
    /\ sent' = <<>>
    /\ begunStale' = stale
    /\ stale' = FALSE
    /\ arg' = a
    /\ norm' = NoNorm
    /\ cat' = "none"
    /\ reply' = "none"
    /\ UNCHANGED <<expired, portal, keep_alive, tstate, why, fin, password, txtSenha>>

Begin(o) == Enter(o, NoArg, Entry(o))

Call == \E o \in Ops : Begin(o)

----------------------------------------------------------------------------
\* __init__

\* init_except with the handler's assignment left out.
init_except_unmarked(t) ==
    /\ At(t, "init_except")
    /\ Settle(t, Raise(stack[t], "SINTACError"), "SINTACError", expired, why[t], FALSE)
    /\ UNCHANGED <<portal, keep_alive, calls, op, sent, prev, begunStale, txtSenha, reply>>
    /\ UNCHANGED lbvars

init_except(t) ==
    /\ At(t, "init_except")
    /\ Settle(t, Raise(stack[t], "SINTACError"), "SINTACError", TRUE, why[t], FALSE)
    /\ UNCHANGED <<portal, keep_alive, calls, op, sent, prev, begunStale, txtSenha, reply>>
    /\ UNCHANGED lbvars

----------------------------------------------------------------------------
\* close

close_check(t) ==
    /\ At(t, "close_check")
    /\ Settle(t, IF ~expired
                 THEN Pop(stack[t]) \o <<"close_super", "logout_got", "req_check">>
                 ELSE Ret(stack[t]),
              "ok", expired, why[t], FALSE)
    /\ UNCHANGED <<portal, keep_alive, calls, op, sent, prev, begunStale, txtSenha, reply>>
    /\ UNCHANGED lbvars

----------------------------------------------------------------------------
\* request

req_check(t) ==
    /\ At(t, "req_check")
    /\ Settle(t, IF expired
                 THEN Pop(stack[t]) \o <<"req_send", "login_reset">>
                 ELSE Append(Pop(stack[t]), "req_send"),
              "ok", expired, why[t], FALSE)
    /\ UNCHANGED <<portal, keep_alive, calls, op, sent, prev, begunStale, txtSenha, reply>>
    /\ UNCHANGED lbvars

Sent(t) == IF t = Main THEN Append(sent, Kind(stack[t])) ELSE sent

\* r is what came back for t's request.
Reply(t, r) == IF t = Main /\ Kind(stack[t]) = "draft" THEN r ELSE reply

\* Why a monitor whose call raises leaves its probe loop, if it does.
Broken(t) ==
    IF t # Main /\ why[t] = "none" /\ Raise(stack[t], "Transport") # <<>>
    THEN "error" ELSE why[t]

\* The reply carries no alert script: request() returns it.  The portal has
\* logged the session in (login) or out (logout).
req_return(t) ==
    /\ At(t, "req_send")
    /\ Kind(stack[t]) \notin {"probe", "logbook_id", "acft"}
    /\ Settle(t, Ret(stack[t]), "ok", expired, why[t], Kind(stack[t]) = "login")
    /\ sent' = Sent(t)
    /\ portal' = CASE Kind(stack[t]) = "login"  -> TRUE
                  [] Kind(stack[t]) = "logout" -> FALSE
                  [] OTHER                     -> portal
    /\ reply' = Reply(t, "plain")
    /\ UNCHANGED <<keep_alive, calls, op, prev, begunStale, txtSenha>>
    /\ UNCHANGED lbvars

\* The reply carries the alert script: request() raises SINTACError.
req_alert(t) ==
    /\ At(t, "req_send")
    /\ Settle(t, Raise(stack[t], "SINTACError"), "SINTACError", expired,
              Broken(t), FALSE)
    /\ sent' = Sent(t)
    /\ reply' = Reply(t, "alert")
    /\ UNCHANGED <<portal, keep_alive, calls, op, prev, begunStale, txtSenha>>
    /\ UNCHANGED lbvars

\* The transport fails (connection, TLS, timeout): Session.request raises.
req_error(t) ==
    /\ At(t, "req_send")
    /\ Settle(t, Raise(stack[t], "Transport"), "Transport", expired,
              Broken(t), FALSE)
    /\ sent' = Sent(t)
    /\ reply' = Reply(t, "transport")
    /\ UNCHANGED <<portal, keep_alive, calls, op, prev, begunStale, txtSenha>>
    /\ UNCHANGED lbvars

----------------------------------------------------------------------------
\* get_login and keep_alive

\* The portal drops the session on its own.
Expire ==
    /\ portal
    /\ portal' = FALSE
    /\ UNCHANGED <<expired, keep_alive, tstate, stack, out, why, calls, op, sent,
                   fin, prev, stale, begunStale, txtSenha, reply>>
    /\ UNCHANGED lbvars

\* The probe's reply is the session's user name: sleep(5), probe again.
probe_match(t) ==
    /\ At(t, "req_send")
    /\ Kind(stack[t]) = "probe"
    /\ portal
    /\ Settle(t, Append(Pop(stack[t]), "req_check"), "ok", expired, why[t], FALSE)
    /\ UNCHANGED <<portal, keep_alive, calls, op, sent, prev, begunStale, txtSenha, reply>>
    /\ UNCHANGED lbvars

\* The probe's reply is another name: the loop ends, the finally closes.
probe_mismatch(t) ==
    /\ At(t, "req_send")
    /\ Kind(stack[t]) = "probe"
    /\ ~portal
    /\ Settle(t, Pop(Pop(stack[t])) \o <<"ka_end", "close_check">>, "ok", expired,
              "mismatch", FALSE)
    /\ UNCHANGED <<portal, keep_alive, calls, op, sent, prev, begunStale, txtSenha, reply>>
    /\ UNCHANGED lbvars

ka_end(t) ==
    /\ At(t, "ka_end")
    /\ Settle(t, Pop(stack[t]), "ok", expired, why[t], FALSE)
    /\ UNCHANGED <<portal, keep_alive, calls, op, sent, prev, begunStale, txtSenha, reply>>
    /\ UNCHANGED lbvars

----------------------------------------------------------------------------
\* login

login_reset(t) ==
    /\ At(t, "login_reset")
    /\ Settle(t, Append(Pop(stack[t]), "login_wait"), "ok", FALSE, why[t], FALSE)
    /\ UNCHANGED <<portal, keep_alive, calls, op, sent, prev, begunStale, txtSenha, reply>>
    /\ UNCHANGED lbvars

\* The handle is None or its thread is not alive: go on to post(), with
\* the held password in its data.
login_wait(t) ==
    /\ At(t, "login_wait")
    /\ keep_alive = 0 \/ ~Alive(keep_alive)
    /\ Settle(t, Pop(stack[t]) \o <<"login_posted", "req_check">>, "ok", expired,
              why[t], FALSE)
    /\ txtSenha' = password
    /\ UNCHANGED <<portal, keep_alive, calls, op, sent, prev, begunStale, reply>>
    /\ UNCHANGED lbvars

\* The handle is the calling thread itself: join() raises RuntimeError.
login_join_self(t) ==
    /\ At(t, "login_wait")
    /\ t \in Monitors
    /\ keep_alive = t
    /\ Settle(t, Raise(stack[t], "RuntimeError"), "RuntimeError", expired,
              Broken(t), FALSE)
    /\ UNCHANGED <<portal, keep_alive, calls, op, sent, prev, begunStale, txtSenha, reply>>
    /\ UNCHANGED lbvars

\* post() returned: construct the Thread and store it in the handle.
login_posted(t) ==
    /\ At(t, "login_posted")
    /\ Cardinality(Created) < MaxThreads
    /\ LET n == Cardinality(Created) + 1 IN
         /\ keep_alive' = n
         /\ tstate' = [tstate EXCEPT ![n] = "created"]
    /\ stack' = [stack EXCEPT ![t] = Append(Pop(stack[t]), "login_start")]
    /\ UNCHANGED <<expired, portal, out, why, calls, op, sent, fin, prev, stale,
                   begunStale, txtSenha, reply>>
    /\ UNCHANGED lbvars

\* login_start with the start() call left out.
login_start_unstarted(t) ==
    /\ At(t, "login_start")
    /\ tstate[keep_alive] = "created"
    /\ stack' = [stack EXCEPT ![t] = Ret(stack[t])]
    /\ out' = IF t = Main /\ Ret(stack[t]) = <<>> THEN "ok" ELSE out
    /\ fin' = IF t = Main /\ Ret(stack[t]) = <<>> THEN expired ELSE fin
    /\ UNCHANGED <<expired, portal, keep_alive, tstate, why, calls, op, sent, prev, stale,
                   begunStale, txtSenha, reply>>
    /\ UNCHANGED lbvars

\* start() on whatever thread the handle names now: it starts running
\* keep_alive, or, if another login() has started it already, start() raises
\* RuntimeError.
login_start(t) ==
    /\ At(t, "login_start")
    /\ IF tstate[keep_alive] = "created"
       THEN /\ tstate' = [tstate EXCEPT ![keep_alive] = "alive"]
            /\ stack' = [stack EXCEPT ![t] = Ret(stack[t]),
                                      ![keep_alive] = <<"ka_cmp", "req_check">>]
            /\ out' = IF t = Main /\ Ret(stack[t]) = <<>> THEN "ok" ELSE out
            /\ fin' = IF t = Main /\ Ret(stack[t]) = <<>> THEN expired ELSE fin
            /\ UNCHANGED <<expired, why, stale>>
       ELSE Settle(t, Raise(stack[t], "RuntimeError"), "RuntimeError", expired,
                   Broken(t), FALSE)
    /\ UNCHANGED <<portal, keep_alive, calls, op, sent, prev, begunStale, txtSenha, reply>>
    /\ UNCHANGED lbvars

----------------------------------------------------------------------------
\* logout

logout_got(t) ==
    /\ At(t, "logout_got")
    /\ Settle(t, Ret(stack[t]), "ok", TRUE, why[t], FALSE)
    /\ UNCHANGED <<portal, keep_alive, calls, op, sent, prev, begunStale, txtSenha, reply>>
    /\ UNCHANGED lbvars

----------------------------------------------------------------------------
\* Strings, as add_draft's field checks use them.  A string is the sequence
\* of its characters; None is a sequence no string equals.

None == <<"None">>

\* What a check yields when its try block raised.
Invalid == <<"LogBookValidationError">>

Digits == <<"0", "1", "2", "3", "4", "5", "6", "7", "8", "9">>
IsDigit(c) == \E i \in 1..10 : Digits[i] = c
DigitVal(c) == (CHOOSE i \in 1..10 : Digits[i] = c) - 1

\* c in s
In(c, s) == \E i \in 1..Len(s) : s[i] = c

\* s.find(c) + 1, for c in s
Find(s, c) == CHOOSE i \in 1..Len(s) : s[i] = c /\ \A j \in 1..(i - 1) : s[j] # c

\* s.split(c, n)
RECURSIVE split(_, _, _)
split(s, c, n) ==
    IF n = 0 \/ ~In(c, s) THEN <<s>>
    ELSE <<SubSeq(s, 1, Find(s, c) - 1)>>
           \o split(SubSeq(s, Find(s, c) + 1, Len(s)), c, n - 1)

\* s.replace(c, '')
RECURSIVE remove(_, _)
remove(s, c) ==
    IF s = <<>> THEN <<>>
    ELSE IF s[1] = c THEN remove(Tail(s), c) ELSE <<s[1]>> \o remove(Tail(s), c)

\* int(s) does not raise ValueError: s is a run of digits.  (Signs, blanks
\* and other scripts' digits are outside the alphabet of the inputs here.)
IsInt(s) == s # <<>> /\ \A i \in 1..Len(s) : IsDigit(s[i])

RECURSIVE int(_)
int(s) == IF s = <<>> THEN 0 ELSE 10 * int(Pop(s)) + DigitVal(Top(s))

\* str(n), as '{0}'.format(n) writes it
RECURSIVE str(_)
str(n) == IF n < 10 THEN <<Digits[n + 1]>>
          ELSE Append(str(n \div 10), Digits[(n % 10) + 1])

\* '{0:0wd}'.format(n), and strftime's %H, %M, %d, %m, %Y
RECURSIVE zfill(_, _)
zfill(s, w) == IF Len(s) >= w THEN s ELSE zfill(<<"0">> \o s, w)

\* datetime.time(*p) does not raise: one to three numbers in range.
time(p) ==
    /\ p[1] < 24
    /\ Len(p) >= 2 => p[2] < 60
    /\ Len(p) >= 3 => p[3] < 60

\* fmt_t, lines 306-325.  The replace of line 312 returns a new string that
\* is dropped, so a comma stays a comma.  Line 316 multiplies the whole
\* number after the point by 6.
fmt_t(t) ==
    IF t = None THEN None
    ELSE LET d == split(t, ".", 1)
             u == IF ~In(".", t) THEN t
                  ELSE IF IsInt(d[2]) THEN d[1] \o <<":">> \o str(int(d[2]) * 6)
                  ELSE Invalid
             p == split(u, ":", 2)
         IN  IF u # Invalid /\ (\A i \in 1..Len(p) : IsInt(p[i]))
                  /\ time([i \in 1..Len(p) |-> int(p[i])])
             THEN zfill(str(int(p[1])), 2) \o <<":">>
                    \o zfill(str(IF Len(p) >= 2 THEN int(p[2]) ELSE 0), 2)
             ELSE Invalid

----------------------------------------------------------------------------
\* add_draft's other field checks, lines 232-304

Leap(y) == (y % 4 = 0 /\ y % 100 # 0) \/ y % 400 = 0
DaysIn(y, m) ==
    IF m = 2 THEN (IF Leap(y) THEN 29 ELSE 28)
    ELSE IF m \in {4, 6, 9, 11} THEN 30 ELSE 31

\* datetime.datetime(*p).strftime(...) does not raise: p is year, month,
\* day and perhaps hour, in range; strftime wants the year from 1900 on.
datetime(p) ==
    /\ Len(p) \in {3, 4}
    /\ p[1] \in 1900..9999
    /\ p[2] \in 1..12
    /\ p[3] \in 1..DaysIn(p[1], p[2])
    /\ Len(p) = 4 => p[4] < 24

reversed(q) == [i \in 1..Len(q) |-> q[Len(q) + 1 - i]]

fmt_date(date) ==
    LET q == split(date, "/", 3)
        p == reversed([i \in 1..Len(q) |-> int(q[i])])
    IN  IF (\A i \in 1..Len(q) : IsInt(q[i])) /\ datetime(p)
        THEN zfill(str(p[3]), 2) \o <<"/">> \o zfill(str(p[2]), 2) \o <<"/">>
               \o zfill(str(p[1]), 4)
        ELSE Invalid

fmt_ldg(ldg) == IF IsInt(ldg) THEN zfill(str(int(ldg)), 2) ELSE Invalid

Roles == {"02", "03", "06", "07"}

fmt_reg(reg) == IF Len(remove(reg, "-")) = 5 THEN remove(reg, "-") ELSE Invalid

Lower == <<"a", "b", "c", "d", "e", "f", "g", "h", "i", "j", "k", "l", "m",
           "n", "o", "p", "q", "r", "s", "t", "u", "v", "w", "x", "y", "z">>
Upper == <<"A", "B", "C", "D", "E", "F", "G", "H", "I", "J", "K", "L", "M",
           "N", "O", "P", "Q", "R", "S", "T", "U", "V", "W", "X", "Y", "Z">>
upper(s) ==
    [i \in 1..Len(s) |->
        IF \E k \in 1..26 : Lower[k] = s[i]
        THEN Upper[CHOOSE k \in 1..26 : Lower[k] = s[i]] ELSE s[i]]

fmt_icao(a) == IF Len(a) = 4 THEN upper(a) ELSE Invalid

\* The remarks are given by their length, NoRmk for None: the check reads
\* nothing else of them.
NoRmk == -1
RmkMax == 4000

Failed(f) == [status |-> "LogBookValidationError", field |-> f]

\* Lines 232-331: the checks in the order of the code; the first that
\* fails raises.  The result holds the locals as the payload will use them.
Normalize(a) ==
    IF fmt_date(a.date) = Invalid THEN Failed("date")
    ELSE IF fmt_ldg(a.ldg) = Invalid THEN Failed("ldg")
    ELSE IF a.role \notin Roles THEN Failed("role")
    ELSE IF fmt_reg(a.reg) = Invalid THEN Failed("reg")
    ELSE IF fmt_icao(a.dep) = Invalid THEN Failed("dep")
    ELSE IF fmt_icao(a.dst) = Invalid THEN Failed("dst")
    ELSE IF a.rmk # NoRmk /\ a.rmk > RmkMax THEN Failed("rmk")
    ELSE IF a.day_t = None /\ a.ngt_t = None THEN Failed("day_t, ngt_t")
    ELSE IF a.instr_t # None /\ a.hood_t # None THEN Failed("instr_t, hood_t")
    ELSE IF fmt_t(a.day_t) = Invalid THEN Failed("day_t")
    ELSE IF fmt_t(a.ngt_t) = Invalid THEN Failed("ngt_t")
    ELSE IF fmt_t(a.xc_t) = Invalid THEN Failed("xc_t")
    ELSE IF fmt_t(a.instr_t) = Invalid THEN Failed("instr_t")
    ELSE IF fmt_t(a.hood_t) = Invalid THEN Failed("hood_t")
    ELSE [status |-> "ok", date |-> fmt_date(a.date), ldg |-> fmt_ldg(a.ldg),
          role |-> a.role, reg |-> fmt_reg(a.reg), dep |-> fmt_icao(a.dep),
          dst |-> fmt_icao(a.dst), rmk |-> a.rmk, day_t |-> fmt_t(a.day_t),
          ngt_t |-> fmt_t(a.ngt_t), xc_t |-> fmt_t(a.xc_t),
          instr_t |-> fmt_t(a.instr_t), hood_t |-> fmt_t(a.hood_t)]

\* The categories get_acft may report; those of airline aircraft.
Airline == {"TPN", "TPX", "TPR"}
Categories == Airline \cup {"TPP"}

----------------------------------------------------------------------------
\* The arguments the foreground caller passes: one flight that passes every
\* check, and the same flight with one field wrong at a time.

Flight ==
    [call |-> "add_draft",
     date |-> <<"0", "5", "/", "0", "1", "/", "2", "0", "2", "0">>,
     ldg |-> <<"2">>, role |-> "06",
     reg |-> <<"P", "T", "-", "A", "B", "C">>,
     dep |-> <<"s", "b", "s", "p">>, dst |-> <<"S", "B", "R", "J">>,
     rmk |-> NoRmk,
     day_t |-> <<"1", ".", "5">>, ngt_t |-> None, xc_t |-> <<"0", ":", "4", "5">>,
     instr_t |-> None, hood_t |-> None]

Drafts ==
    {Flight,
     [Flight EXCEPT !.ngt_t = <<"0", ":", "3", "0">>, !.day_t = None, !.rmk = RmkMax,
                    !.hood_t = <<"0", ".", "5">>],
     [Flight EXCEPT !.date = <<"3", "1", "/", "0", "2", "/", "2", "0", "2", "0">>],
     [Flight EXCEPT !.ldg = <<"x">>],
     [Flight EXCEPT !.role = "01"],
     [Flight EXCEPT !.reg = <<"P", "T", "-", "A", "B">>],
     [Flight EXCEPT !.dep = <<"s", "b">>],
     [Flight EXCEPT !.dst = <<"S", "B", "R", "J", "X">>],
     [Flight EXCEPT !.rmk = RmkMax + 1],
     [Flight EXCEPT !.day_t = None],
     [Flight EXCEPT !.instr_t = <<"0", ".", "2">>, !.hood_t = <<"0", ".", "3">>],
     [Flight EXCEPT !.xc_t = <<"1", ".", "2", "5">>]}

Passwords == {1, 2}

----------------------------------------------------------------------------
\* change_password

\* pw_posted with the assignment of line 140 left out.
pw_posted_kept(t) ==
    /\ At(t, "pw_posted")
    /\ Settle(t, Pop(stack[t]), "ok", expired, why[t], FALSE)
    /\ UNCHANGED <<portal, keep_alive, calls, op, sent, prev, begunStale, txtSenha, reply>>
    /\ UNCHANGED lbvars

\* post() returned: the new password is held from now on.
pw_posted(t) ==
    /\ At(t, "pw_posted")
    /\ Settle(t, Pop(stack[t]), "ok", expired, why[t], FALSE)
    /\ password' = arg.password
    /\ UNCHANGED <<portal, keep_alive, calls, op, sent, prev, begunStale, txtSenha, reply>>
    /\ UNCHANGED <<arg, norm, cat>>

----------------------------------------------------------------------------
\* LogBook.__init__ and get_logbook_id

lb_init(t) ==
    /\ At(t, "lb_init")
    /\ Settle(t, Pop(stack[t]) \o <<"lb_id", "req_check">>, "ok", expired, why[t], FALSE)
    /\ UNCHANGED <<portal, keep_alive, calls, op, sent, prev, begunStale, txtSenha, reply>>
    /\ UNCHANGED lbvars

\* The page holds the ID_AERONAUTA field: __init__ stores it and returns.
lb_id_found(t) ==
    /\ At(t, "req_send")
    /\ Kind(stack[t]) = "logbook_id"
    /\ Settle(t, Pop(Pop(stack[t])), "ok", expired, why[t], FALSE)
    /\ sent' = Sent(t)
    /\ UNCHANGED <<portal, keep_alive, calls, op, prev, begunStale, txtSenha, reply>>
    /\ UNCHANGED lbvars

\* The page does not hold it: get_logbook_id raises SINTACError.
lb_id_missing(t) ==
    /\ At(t, "req_send")
    /\ Kind(stack[t]) = "logbook_id"
    /\ Settle(t, Raise(Pop(stack[t]), "SINTACError"), "SINTACError", expired, why[t],
              FALSE)
    /\ sent' = Sent(t)
    /\ UNCHANGED <<portal, keep_alive, calls, op, prev, begunStale, txtSenha, reply>>
    /\ UNCHANGED lbvars

----------------------------------------------------------------------------
\* add_draft and get_acft

\* draft_check that records the checks' result and goes on to the lookup
\* whatever it is.
draft_check_late(t) ==
    /\ At(t, "draft_check")
    /\ norm' = Normalize(arg)
    /\ Settle(t, Pop(stack[t]) \o <<"draft_acft", "req_check">>,
              "LogBookValidationError", expired, why[t], FALSE)
    /\ UNCHANGED <<portal, keep_alive, calls, op, sent, prev, begunStale, txtSenha, reply>>
    /\ UNCHANGED <<password, arg, cat>>

draft_check(t) ==
    /\ At(t, "draft_check")
    /\ norm' = Normalize(arg)
    /\ Settle(t, IF Normalize(arg).status = "ok"
                 THEN Pop(stack[t]) \o <<"draft_acft", "req_check">>
                 ELSE Raise(stack[t], "LogBookValidationError"),
              "LogBookValidationError", expired, why[t], FALSE)
    /\ UNCHANGED <<portal, keep_alive, calls, op, sent, prev, begunStale, txtSenha, reply>>
    /\ UNCHANGED <<password, arg, cat>>

\* acft_found without the test of line 335.
acft_found_any(t, c) ==
    /\ At(t, "req_send")
    /\ Kind(stack[t]) = "acft"
    /\ cat' = c
    /\ Settle(t, Pop(Pop(stack[t])) \o <<"draft_posted", "req_check">>,
              "LogBookValidationError", expired, why[t], FALSE)
    /\ sent' = Sent(t)
    /\ UNCHANGED <<portal, keep_alive, calls, op, prev, begunStale, txtSenha, reply>>
    /\ UNCHANGED <<password, arg, norm>>

\* The lookup's reply describes the aircraft, of category c: an airline's
\* aircraft is refused, any other goes on to the submission post.
acft_found(t, c) ==
    /\ At(t, "req_send")
    /\ Kind(stack[t]) = "acft"
    /\ cat' = c
    /\ Settle(t, IF c \in Airline
                 THEN Raise(Pop(stack[t]), "LogBookValidationError")
                 ELSE Pop(Pop(stack[t])) \o <<"draft_posted", "req_check">>,
              "LogBookValidationError", expired, why[t], FALSE)
    /\ sent' = Sent(t)
    /\ UNCHANGED <<portal, keep_alive, calls, op, prev, begunStale, txtSenha, reply>>
    /\ UNCHANGED <<password, arg, norm>>

\* The lookup's reply holds no aircraft: get_acft raises SINTACError.
acft_missing(t) ==
    /\ At(t, "req_send")
    /\ Kind(stack[t]) = "acft"
    /\ Settle(t, Raise(Pop(stack[t]), "SINTACError"), "SINTACError", expired, why[t],
              FALSE)
    /\ sent' = Sent(t)
    /\ UNCHANGED <<portal, keep_alive, calls, op, prev, begunStale, txtSenha, reply>>
    /\ UNCHANGED lbvars

\* The reply carries the alert script with a message that ends with
\* 'sucesso!': request() raises SINTACError all the same.
req_alert_sucesso(t) ==
    /\ At(t, "req_send")
    /\ Settle(t, Raise(stack[t], Sucesso), "SINTACError", expired, Broken(t), FALSE)
    /\ sent' = Sent(t)
    /\ reply' = Reply(t, "sucesso")
    /\ UNCHANGED <<portal, keep_alive, calls, op, prev, begunStale, txtSenha>>
    /\ UNCHANGED lbvars

\* draft_except that raises the success message again.
draft_except_raise(t) ==
    /\ At(t, "draft_except")
    /\ Settle(t, Raise(stack[t], "SINTACError"), "SINTACError", expired, why[t], FALSE)
    /\ UNCHANGED <<portal, keep_alive, calls, op, sent, prev, begunStale, txtSenha, reply>>
    /\ UNCHANGED lbvars

\* The handler of line 365 holds a success message: add_draft returns.
draft_except(t) ==
    /\ At(t, "draft_except")
    /\ Settle(t, Pop(stack[t]), "ok", expired, why[t], FALSE)
    /\ UNCHANGED <<portal, keep_alive, calls, op, sent, prev, begunStale, txtSenha, reply>>
    /\ UNCHANGED lbvars

----------------------------------------------------------------------------
\* A LogBook: its construction, then calls of add_draft and change_password.
\* The caller leaves login(), logout() and close() to the session, as Spec
\* has them: then the flag is set only by a monitor on its way out, no
\* monitor ever finds it set, and login_join_self has no place here.

LogBookInit ==
    /\ expired = FALSE
    /\ portal = FALSE
    /\ keep_alive = 0
    /\ tstate = [t \in Threads |-> IF t = Main THEN "alive" ELSE "new"]
    /\ stack = [t \in Threads |->
                  IF t = Main THEN <<"lb_init", "init_ret", "login_reset">> ELSE <<>>]
    /\ out = "run"
    /\ calls = 0
    /\ why = [t \in Threads |-> "none"]
    /\ op = "init"
    /\ sent = <<>>
    /\ fin = FALSE
    /\ prev = "none"
    /\ stale = FALSE
    /\ begunStale = FALSE
    /\ password = 1
    /\ txtSenha = 0
    /\ arg = NoArg
    /\ norm = NoNorm
    /\ cat = "none"
    /\ reply = "none"

LogBookCall ==
    \/ \E d \in Drafts : Enter("add_draft", d, <<"draft_check">>)
    \/ \E p \in Passwords :
         Enter("change_password", [call |-> "change_password", password |-> p],
               <<"pw_posted", "req_check">>)

LogBookNext ==
    \/ LogBookCall
    \/ Expire
    \/ \E t \in Threads : init_except(t)
    \/ \E t \in Threads : close_check(t)
    \/ \E t \in Threads : req_check(t)
    \/ \E t \in Threads : req_return(t)
    \/ \E t \in Threads : req_alert(t)
    \/ \E t \in Threads : req_alert_sucesso(t)
    \/ \E t \in Threads : req_error(t)
    \/ \E t \in Threads : probe_match(t)
    \/ \E t \in Threads : probe_mismatch(t)
    \/ \E t \in Threads : ka_end(t)
    \/ \E t \in Threads : login_reset(t)
    \/ \E t \in Threads : login_wait(t)
    \/ \E t \in Threads : login_posted(t)
    \/ \E t \in Threads : login_start(t)
    \/ \E t \in Threads : logout_got(t)
    \/ \E t \in Threads : pw_posted(t)
    \/ \E t \in Threads : lb_init(t)
    \/ \E t \in Threads : lb_id_found(t)
    \/ \E t \in Threads : lb_id_missing(t)
    \/ \E t \in Threads : draft_check(t)
    \/ \E t \in Threads, c \in Categories : acft_found(t, c)
    \/ \E t \in Threads : acft_missing(t)
    \/ \E t \in Threads : draft_except(t)

LogBookSpec == LogBookInit /\ [][LogBookNext]_vars

----------------------------------------------------------------------------

Step(t) ==
    \/ init_except(t)
    \/ close_check(t)
    \/ req_check(t) \/ req_return(t) \/ req_alert(t) \/ req_error(t)
    \/ probe_match(t) \/ probe_mismatch(t) \/ ka_end(t)
    \/ login_reset(t) \/ login_wait(t) \/ login_join_self(t)
    \/ login_posted(t) \/ login_start(t)
    \/ logout_got(t)

Next ==
    \/ Call
    \/ Expire
    \/ \E t \in Threads : init_except(t)
    \/ \E t \in Threads : close_check(t)
    \/ \E t \in Threads : req_check(t)
    \/ \E t \in Threads : req_return(t)
    \/ \E t \in Threads : req_alert(t)
    \/ \E t \in Threads : req_error(t)
    \/ \E t \in Threads : probe_match(t)
    \/ \E t \in Threads : probe_mismatch(t)
    \/ \E t \in Threads : ka_end(t)
    \/ \E t \in Threads : login_reset(t)
    \/ \E t \in Threads : login_wait(t)
    \/ \E t \in Threads : login_join_self(t)
    \/ \E t \in Threads : login_posted(t)
    \/ \E t \in Threads : login_start(t)
    \/ \E t \in Threads : logout_got(t)

Spec == Init /\ [][Next]_vars

\* Every thread that can take a step of the call it is in eventually takes
\* one.  What the portal answers and when the caller makes its next call
\* are left open.
FairSpec == Spec /\ \A t \in Threads : WF_vars(Step(t))

Idle == stack[Main] = <<>>
Range(q) == {q[i] : i \in 1..Len(q)}

----------------------------------------------------------------------------
\* C1: at most one keep-alive monitor is alive for the session in every
\* reachable state: no monitor started earlier is still running when a
\* later one is started.
C1_AtMostOneMonitor == Cardinality(AliveMonitors) <= 1

\* C2: when the login reply of the constructor carries no error signal,
\* construction ends with the session not expired and exactly one
\* keep-alive thread created and started.
C2_ConstructValid ==
    (op = "init" /\ out = "ok") =>
        /\ ~fin
        /\ Cardinality(Created) = 1
        /\ Cardinality(Started) = 1
        /\ keep_alive = 1

C2_Witness == op = "init" /\ out = "ok" /\ sent = <<"login">> /\ Alive(1)

\* C3: when the login reply of the constructor carries the error signal,
\* construction fails with SINTACError, no keep-alive thread has been
\* created or is running, and the session is expired.
C3_ConstructInvalid ==
    /\ (op = "init" /\ Idle /\ out = "SINTACError") =>
            /\ expired /\ fin
            /\ Created = {}
            /\ keep_alive = 0
    /\ (op = "init" /\ At(Main, "init_except")) => (out = "run" /\ Created = {})

C3_Witness == op = "init" /\ Idle /\ out = "SINTACError" /\ sent = <<"login">>

\* C4: once a monitor has ended on an identity mismatch (and no login has
\* succeeded since), the session is expired while the caller is idle, and
\* the caller's next request sends a login request before its own.
C4_MismatchForcesRelogin ==
    /\ (stale /\ Idle) => expired
    /\ (op = "request" /\ begunStale /\ "user" \in Range(sent)) => sent[1] = "login"

\* C5: a foreground request() that follows a foreground logout() or close()
\* that returned sends a login request before anything else, in every
\* interleaving with the monitor.
C5_ReloginAfterLogout ==
    (op = "request" /\ prev \in {"logout", "close"} /\ sent # <<>>) => sent[1] = "login"

\* C6: whatever the outcome of its request, a foreground logout() leaves
\* the session expired.
C6_LogoutAlwaysExpires == (op = "logout" /\ Idle) => fin

\* C7: a foreground close() never raises.
C7_CloseNeverRaises == (op = "close" /\ Idle) => out = "ok"

\* C8: a foreground call whose login request is rejected ends with
\* SINTACError and leaves the session expired.
C8_RejectedLoginExpires ==
    (Idle /\ out = "SINTACError" /\ sent # <<>> /\ sent[Len(sent)] = "login") => fin

\* C9: under fair scheduling, every foreground request() that found the
\* session expired and entered login() eventually returns or raises (unless
\* the model's thread bound stops a login() from creating its thread).
Relogin == op = "request" /\ Len(stack[Main]) >= 2 /\ stack[Main][1] = "req_send"
AtBound == Cardinality(Created) = MaxThreads /\ \E t \in Threads : At(t, "login_posted")
C9_ReloginTerminates == Relogin ~> (Idle \/ AtBound)

\* C10: a foreground close() that directly follows a close() that returned
\* and left the session expired sends no logout request, does not raise
\* and leaves the session expired.
C10_CloseIdempotent ==
    (op = "close" /\ prev = "close") =>
        /\ "logout" \notin Range(sent)
        /\ Idle => (out = "ok" /\ fin)

\* C16: one foreground request() sends at most one login request and sends
\* its own request at most once.
Count(q, k) == Cardinality({i \in 1..Len(q) : q[i] = k})
C16_OneRelogin ==
    op = "request" => (Count(sent, "login") <= 1 /\ Count(sent, "user") <= 1)

\* C17: a monitor that left its loop on a probe error ends with the session
\* expired, unless a login() is under way on another thread at that moment.
LoginFrames == {"login_reset", "login_wait", "login_posted", "login_start"}
InLogin(t) == Running(t) /\ Range(stack[t]) \cap LoginFrames # {}
C17_ProbeErrorExpires ==
    [][\A t \in Monitors :
          (why[t] = "error" /\ Alive(t) /\ tstate'[t] = "dead"
             /\ ~(\E u \in Threads : InLogin(u)'))
          => expired']_vars

\* C18: whenever the session is not expired and no login(), logout() or
\* close() is under way on any thread, exactly one monitor is alive.
CallFrames == LoginFrames \cup {"logout_got", "close_check", "close_super", "init_ret",
                                "init_except"}
InCall(t) == Running(t) /\ Range(stack[t]) \cap CallFrames # {}
C18_AuthenticatedIsMonitored ==
    (Constructed /\ ~expired /\ ~(\E t \in Threads : InCall(t)))
        => Cardinality(AliveMonitors) = 1

\* C19: no monitor ever gets past the wait of login(): none sends a login
\* request, none creates a thread.
C19_MonitorNeverLogsIn ==
    \A t \in Monitors :
        Running(t) => Range(stack[t]) \cap {"login_posted", "login_start"} = {}

----------------------------------------------------------------------------
\* fmt_t on its own: every string of at most MaxLen of these characters.

MaxLen == 4
TimeChars == {"0", "1", "5", "6", ":", ".", ","}
TimeInputs == {None} \cup UNION {[1..n -> TimeChars] : n \in 0..MaxLen}

InitTime ==
    /\ expired = FALSE
    /\ portal = FALSE
    /\ keep_alive = 0
    /\ tstate = [t \in Threads |-> IF t = Main THEN "alive" ELSE "new"]
    /\ stack = [t \in Threads |-> <<>>]
    /\ out = "run"
    /\ calls = 0
    /\ why = [t \in Threads |-> "none"]
    /\ op = "fmt_t"
    /\ sent = <<>>
    /\ fin = FALSE
    /\ prev = "none"
    /\ stale = FALSE
    /\ begunStale = FALSE
    /\ password = 1
    /\ txtSenha = 0
    /\ arg \in {[call |-> "fmt_t", t |-> x] : x \in TimeInputs}
    /\ norm = NoNorm
    /\ cat = "none"
    /\ reply = "none"

fmt_t_call ==
    /\ op = "fmt_t"
    /\ norm = NoNorm
    /\ norm' = [status |-> "done", t |-> fmt_t(arg.t)]
    /\ UNCHANGED <<expired, portal, keep_alive, tstate, stack, out, why, calls, op, sent,
                   fin, prev, stale, begunStale, password, txtSenha, arg, cat, reply>>

NextTime == fmt_t_call

SpecTime == InitTime /\ [][NextTime]_vars

\* An hour of the day in one or two digits.
IsHour(s) == IsInt(s) /\ Len(s) <= 2 /\ int(s) < 24
HM(h, m) == zfill(str(h), 2) \o <<":">> \o zfill(str(m), 2)

\* t is written h:mm; t is written h.d
IsColon(t) ==
    /\ In(":", t)
    /\ IsHour(split(t, ":", 1)[1])
    /\ LET m == split(t, ":", 1)[2] IN IsInt(m) /\ Len(m) = 2 /\ int(m) < 60
IsDecimal(t) ==
    /\ In(".", t)
    /\ IsHour(split(t, ".", 1)[1])
    /\ LET d == split(t, ".", 1)[2] IN IsInt(d) /\ Len(d) = 1

\* C15: fmt_t turns h:mm into HH:MM and h.d into HH:MM with d * 6 minutes,
\* and raises the validation error for every other string.
C15_TimeNormalization ==
    (op = "fmt_t" /\ norm # NoNorm /\ arg.t # None) =>
        norm.t = IF IsColon(arg.t)
                 THEN HM(int(split(arg.t, ":", 1)[1]), int(split(arg.t, ":", 1)[2]))
                 ELSE IF IsDecimal(arg.t)
                 THEN HM(int(split(arg.t, ".", 1)[1]), 6 * int(split(arg.t, ".", 1)[2]))
                 ELSE Invalid

----------------------------------------------------------------------------
\* Claims about a LogBook (LogBookSpec).

\* The foreground call has begun its submission post.
Submitting ==
    \/ "draft" \in Range(sent)
    \/ Range(stack[Main]) \cap {"draft_posted", "draft_except"} # {}

\* C11: an add_draft whose aircraft is of an airline category ends in the
\* validation error with no submission begun; a submission is begun only
\* with every field check passed and a category outside the airline set.
C11_AirlineGate ==
    op = "add_draft" =>
        /\ cat \in Airline => (out = "LogBookValidationError" /\ ~Submitting)
        /\ Submitting => (norm.status = "ok" /\ cat \in Categories \ Airline)

C11_Witness ==
    op = "add_draft" /\ cat \in Airline /\ out = "LogBookValidationError"

\* C12 as stated: an add_draft that ended in the validation error has sent
\* no request at all.
C12_ValidationBeforeNetwork ==
    (op = "add_draft" /\ out = "LogBookValidationError") => sent = <<>>

\* C12 amended: an add_draft that ended in the validation error of a field
\* check has sent no request at all; one that ended in the validation error
\* of the category test has sent the aircraft lookup and no submission.
C12_ValidationBeforeSubmission ==
    (op = "add_draft" /\ out = "LogBookValidationError") =>
        IF norm.status = "ok"
        THEN cat \in Airline /\ "acft" \in Range(sent) /\ ~Submitting
        ELSE sent = <<>>

C12_Witness ==
    /\ op = "add_draft" /\ out = "LogBookValidationError"
    /\ norm.status = "LogBookValidationError"
    /\ calls = MaxCalls

\* C13: once the submission request of an add_draft has its reply, an alert
\* whose message ends with 'sucesso!' makes the call return, any other
\* alert makes it raise SINTACError, and no alert makes it return.
C13_SubmissionOutcome ==
    (op = "add_draft" /\ out # "run") =>
        /\ reply = "sucesso" => out = "ok"
        /\ reply = "alert" => out = "SINTACError"
        /\ reply = "plain" => out = "ok"

C13_Witness == op = "add_draft" /\ reply = "sucesso" /\ out = "ok"

\* C14: the held password changes only in the step in which
\* change_password(p) returns, and then to p, with the flag, the handle and
\* the portal's session as they were; every login post carries the password
\* held when it is made.
C14_PasswordUpdate ==
    [][/\ password' # password =>
            (op = "change_password" /\ out = "run" /\ out' = "ok"
               /\ password' = arg.password)
       /\ (op = "change_password" /\ out = "run" /\ out' = "ok") =>
            (password' = arg.password /\ expired' = expired
               /\ keep_alive' = keep_alive /\ portal' = portal)
       /\ (\E t \in Threads : At(t, "login_wait") /\ Len(stack'[t]) > Len(stack[t])) =>
            txtSenha' = password]_vars

\* A login post made after change_password(2) returned carries 2.
C14_Witness == op = "add_draft" /\ password = 2 /\ txtSenha = 2

\* C20: a LogBook whose construction raised has no monitor alive and its
\* flag set.
C20_FailedConstruction ==
    (op = "init" /\ out \notin {"run", "ok"}) => (AliveMonitors = {} /\ expired)

====
